---- MODULE Spec2Model ----
(***************************************************************************)
(* EnviroSight: the prediction path of the hazard map.                     *)
(*                                                                         *)
(*   lib/api-client.ts      retryWithBackoff, getWeatherData,              *)
(*                          runPrediction, clientSidePrediction            *)
(*   prediction-panel.tsx   PredictionPanel: loadChemicals, handleSimulate *)
(*   map-component.tsx      MapComponent: handlePredictionResult,          *)
(*                          toggleMobilePanel, the two panel mounts        *)
(*                                                                         *)
(* Numbers.  Angles are whole degrees, all multiples of 15 (the estimator  *)
(* samples the ellipse every 360/24 = 15 degrees).  Coordinates and axis   *)
(* lengths are integers counting 1/DegUnit of a degree.  Sines and cosines *)
(* are integers counting 1/TrigScale.  Every product of the source is      *)
(* followed by one rounding (RoundDiv), as every floating-point operation  *)
(* of the source is.                                                       *)
(*                                                                         *)
(* An optional value (T | null) is a sequence of length 0 or 1.            *)
(***************************************************************************)
EXTENDS Integers, Sequences, FiniteSets, TLC

\* ---------------------------------------------------------------- bounds
\* Simulation requests that pass validation in one run of the model.
MaxRequests == 2

\* ------------------------------------------------------------- arithmetic
DegUnit == 100000
TrigScale == 1000

\* a / b rounded to the nearest integer, b > 0
RoundDiv(a, b) == (2 * a + b) \div (2 * b)

\* 1000 * sin of 0, 15, ..., 90 degrees
SinTab == [d \in {0, 15, 30, 45, 60, 75, 90} |->
             CASE d = 0 -> 0 [] d = 15 -> 259 [] d = 30 -> 500 [] d = 45 -> 707
               [] d = 60 -> 866 [] d = 75 -> 966 [] d = 90 -> 1000]

\* Math.sin of an angle given in whole degrees (a multiple of 15)
SinDeg(d) ==
  LET m == d % 360 IN
    IF m <= 90 THEN SinTab[m]
    ELSE IF m <= 180 THEN SinTab[180 - m]
    ELSE IF m <= 270 THEN 0 - SinTab[m - 180]
    ELSE 0 - SinTab[360 - m]

\* Math.cos of an angle given in whole degrees (a multiple of 15)
CosDeg(d) == SinDeg(d + 90)

\* ------------------------------------------------------------------ types
\* properties.chemical and properties.model_type are absent (undefined) in a
\* result of the local estimator: <<>> and "".
Location(lat, lng) == [lat |-> lat, lng |-> lng]

WeatherData(ws, wd, t, h) ==
  [windSpeed |-> ws, windDirection |-> wd, temperature |-> t, humidity |-> h]

\* --------------------------------------------------- clientSidePrediction
\* weather.windSpeed * 0.0005, in 1/DegUnit degrees
AxisPerSpeed == 50

numPoints == 24

\* every hazard type that mentions gas is doubled
gasAdjust_substring(majorAxis, hazardType) ==
  IF hazardType \in {"gas", "Toxic Gas"} THEN majorAxis * 2 ELSE majorAxis

\* the hazard-type adjustment of the major axis
gasAdjust(majorAxis, hazardType) ==
  IF hazardType = "gas" THEN majorAxis * 2 ELSE majorAxis

\* one perimeter sample, i in 0 .. numPoints - 1
ellipsePoint(location, windDirDeg, majorAxis, minorAxis, i) ==
  LET angle == (i * 360) \div numPoints
      x == RoundDiv(majorAxis * CosDeg(angle), TrigScale)
      y == RoundDiv(minorAxis * SinDeg(angle), TrigScale)
      rotatedX == RoundDiv(x * CosDeg(windDirDeg) - y * SinDeg(windDirDeg), TrigScale)
      rotatedY == RoundDiv(x * SinDeg(windDirDeg) + y * CosDeg(windDirDeg), TrigScale)
      latOffset == rotatedY
      lngOffset == RoundDiv(rotatedX * TrigScale, CosDeg(location.lat \div DegUnit))
  IN  <<location.lat + latOffset, location.lng + lngOffset>>

\* the loop that fills points
ellipsePoints(location, windDirDeg, majorAxis, minorAxis) ==
  [i \in 1 .. numPoints |->
     ellipsePoint(location, windDirDeg, majorAxis, minorAxis, i - 1)]

\* the closing point left out
closePolygon_open(points) == points

\* "Close the polygon by repeating the first point"
closePolygon(points) ==
  IF Len(points) > 0 THEN Append(points, points[1]) ELSE points

\* the wind direction taken as the heading itself
windDirDegrees_raw(windDirection) == windDirection

\* (270 - weather.windDirection): meteorological to mathematical, in degrees
windDirDegrees(windDirection) == 270 - windDirection

\* a floor of one speed unit under the axis
baseAxis_floor(windSpeed) == (windSpeed + 1) * AxisPerSpeed

\* let majorAxis = weather.windSpeed * 0.0005
baseAxis(windSpeed) == windSpeed * AxisPerSpeed

\* minorAxis taken from majorAxis after the hazard-type adjustment
ellipseLocals_minorAfter(weather, hazardType) ==
  LET majorAxis == gasAdjust(baseAxis(weather.windSpeed), hazardType) IN
    [windDirDeg |-> windDirDegrees(weather.windDirection),
     majorAxis |-> majorAxis,
     minorAxis |-> majorAxis \div 2]

\* the locals the loop reads: the heading and the two axes; minorAxis is
\* taken from majorAxis before the hazard-type adjustment
ellipseLocals(weather, hazardType) ==
  LET majorAxis0 == baseAxis(weather.windSpeed) IN
    [windDirDeg |-> windDirDegrees(weather.windDirection),
     majorAxis |-> gasAdjust(majorAxis0, hazardType),
     minorAxis |-> majorAxis0 \div 2]

clientSidePrediction(location, weather, hazardType, chemical_id) ==
  LET l == ellipseLocals(weather, hazardType)
      points == closePolygon(ellipsePoints(location, l.windDirDeg,
                                           l.majorAxis, l.minorAxis))
  IN  [center |-> location,
       polygon |-> points,
       properties |-> [hazardType |-> hazardType,
                       windSpeed |-> weather.windSpeed,
                       windDirection |-> weather.windDirection,
                       chemical |-> <<>>,
                       model_type |-> ""]]

\* ------------------------------------------------------- retryWithBackoff
maxRetries == 3
initialDelay == 500

\* The locals of one retryWithBackoff call.  calls and waits are history:
\* how often fn was called and the delays waited so far; last is the way the
\* latest call of fn failed ("" while none has).
\* state: "calling" (fn is awaited), "waiting" (the timer is awaited).
retryStart ==
  [retries |-> 0, delay |-> initialDelay, state |-> "calling",
   calls |-> 1, waits |-> <<>>, last |-> ""]

\* one retry too many: > for >=
retryExhausted_offByOne(rb) == rb.retries > maxRetries

\* the catch block's decision: rethrow, or wait and call again
retryExhausted(rb) == rb.retries >= maxRetries

\* what one completion of fn leads to
retryWithBackoff(rb, threw) ==
  IF ~threw THEN "return"
  ELSE IF retryExhausted(rb) THEN "throw"
  ELSE "wait"

\* await new Promise((resolve) => setTimeout(resolve, delay))
retryWait(rb, kind) ==
  [rb EXCEPT !.state = "waiting", !.waits = Append(@, rb.delay), !.last = kind]

\* the timer fired: retries++, delay *= 2, next turn of the loop calls fn
retryResume(rb) ==
  [rb EXCEPT !.retries = @ + 1, !.delay = @ * 2, !.state = "calling",
             !.calls = @ + 1, !.last = ""]

\* ----------------------------------------------------- remote collaborators
\* How one fetch can end: a response the function accepts, a rejected fetch,
\* a non-2xx status, a 2xx body the function cannot read (json() throws, or
\* geometry / properties is missing).
FailureKinds == {"network", "http404", "http500", "malformed"}

Failure(kind) == [kind |-> kind, body |-> <<>>]

Ok(body) == [kind |-> "ok", body |-> <<body>>]

\* a body /get-weather-data answers with (other than the fallback values)
WeatherResponses == {WeatherData(10, 180, 75, 60)}

WeatherOutcomes == {Ok(w) : w \in WeatherResponses} \cup {Failure(k) : k \in FailureKinds}

\* GeoJSON features: the exterior ring in [lng, lat] order, properties.chemical
\* (optional), properties.model_type ("" when absent).
GeoJson(ring, chemical, model_type) ==
  [ring |-> ring, chemical |-> chemical, model_type |-> model_type]

RingClosed == << <<-9000000, 4500000>>, <<-8999000, 4500000>>,
                 <<-8999000, 4501000>>, <<-9000000, 4500000>> >>

RingOpen == << <<-7400000, 4071000>>, <<-7400000, 4072000>>, <<-7399000, 4071000>> >>

GeoJsonResponses ==
  {GeoJson(RingClosed, <<[id |-> 1, hazard_type |-> "gas"]>>, "Gaussian Plume"),
   GeoJson(RingOpen, <<>>, "")}

PredictionOutcomes ==
  {Ok(g) : g \in GeoJsonResponses} \cup {Failure(k) : k \in FailureKinds}

\* a settled promise: rejected, or resolved with value[1]
Resolved(v) == [rejected |-> FALSE, value |-> <<v>>]

Rejected == [rejected |-> TRUE, value |-> <<>>]

\* ---------------------------------------------------------- getWeatherData
defaultWindSpeed == 12
defaultWindDirection == 225
defaultTemperature == 72
defaultHumidity == 45

\* the catch block of getWeatherData: "Fall back to mock data"
weatherFallback ==
  WeatherData(defaultWindSpeed, defaultWindDirection, defaultTemperature, defaultHumidity)

\* no catch block: the error of the last attempt is passed on
getWeatherData_rethrow(step, o) ==
  IF step = "return" THEN Resolved(o.body[1]) ELSE Rejected

\* getWeatherData once retryWithBackoff has returned or thrown
\* (step is "return" or "throw"; o is the outcome of the last fetch)
getWeatherData(step, o) ==
  IF step = "return" THEN Resolved(o.body[1]) ELSE Resolved(weatherFallback)

\* ----------------------------------------------------------- runPrediction
\* the pair is kept as it came
swapCoord_kept(coord) == coord

\* coordinates[0].map((coord) => [coord[1], coord[0]])
swapCoord(coord) == <<coord[2], coord[1]>>

swapRing(ring) == [i \in 1 .. Len(ring) |-> swapCoord(ring[i])]

\* "Convert GeoJSON to our internal format"
convertGeoJson(geoJson, params) ==
  [center |-> params.location,
   polygon |-> swapRing(geoJson.ring),
   properties |->
     [hazardType |-> IF geoJson.chemical # <<>> /\ geoJson.chemical[1].hazard_type # ""
                     THEN geoJson.chemical[1].hazard_type ELSE params.hazardType,
      windSpeed |-> params.weather.windSpeed,
      windDirection |-> params.weather.windDirection,
      chemical |-> geoJson.chemical,
      model_type |-> IF geoJson.model_type # "" THEN geoJson.model_type
                     ELSE "Simplified Model"]]

\* the catch block rethrows instead of falling back
predictionFallback_rethrow(params) == Rejected

\* the catch block of runPrediction: the client-side fallback
predictionFallback(params) ==
  Resolved(clientSidePrediction(params.location, params.weather,
                                params.hazardType, params.chemical_id))

\* the remote result is dropped: the fallback is always what is returned
runPrediction_alwaysLocal(step, o, params) == predictionFallback(params)

\* runPrediction once retryWithBackoff has returned or thrown
runPrediction(step, o, params) ==
  IF step = "return" THEN Resolved(convertGeoJson(o.body[1], params))
  ELSE predictionFallback(params)

\* the stack height travels with the request
predictionPayload_withStack(params) ==
  [latitude |-> params.location.lat + params.stack[1].val,
   longitude |-> params.location.lng,
   chemical_id |-> params.chemical_id]

\* the payload of the request to /run-dispersion-prediction
predictionPayload(params) ==
  [latitude |-> params.location.lat, longitude |-> params.location.lng,
   chemical_id |-> params.chemical_id]

\* ------------------------------------------------------------------ state
VARIABLES
  isMobile,          \* useIsMobile(): which layout MapComponent renders
  mapReady,          \* mapRef.current is not null
  mapView,           \* the map's center and zoom
  mobileMenuOpen,    \* MapComponent state
  mobilePanelView,   \* MapComponent state: "controls" or "prediction"
  predictionResult,  \* MapComponent state: <<>> (null) or <<result>>
  appliedBy,         \* history: the request whose result predictionResult holds (0: none)
  panel,             \* the state of the PredictionPanel instance now mounted
  reqs,              \* the handleSimulate calls that passed validation, in start order
  estIn,             \* the arguments of a direct call of clientSidePrediction
  estOut,            \* <<>>, or <<its result>>
  estLocals,         \* history: <<>>, or <<the locals of that call>>
  hazardSites,       \* MapComponent state: the array setHazardSites was given
  aqiStations,       \* MapComponent state: the array setAqiStations was given
  loading,           \* MapComponent state
  error,             \* MapComponent state: "" (null) or the message
  dataSource,        \* MapComponent state: "api" or "mock"
  setBy,             \* history: the loadMapData calls that set the two arrays
  loads,             \* the loadMapData calls, in start order
  searchTimers,      \* pending setTimeout(..., 500) callbacks of onLocationFound
  visibleLayers,     \* MapComponent state: which layers are drawn
  aqiIcon,           \* a call of createAQIIcon: its argument and the colour chosen
  locationFinder,    \* the LocationFinder component inside the map
  edgeClient         \* the api-client module that probes availability

mapVars == <<isMobile, mapReady, mapView, mobileMenuOpen, mobilePanelView>>
estVars == <<estIn, estOut, estLocals>>
extraVars == <<visibleLayers, aqiIcon, locationFinder, edgeClient>>
loaderVars == <<hazardSites, aqiStations, loading, error, dataSource, setBy, loads,
                searchTimers>>
dataVars == <<hazardSites, aqiStations, loading, error, dataSource, setBy, loads,
              searchTimers, visibleLayers, aqiIcon, locationFinder, edgeClient>>
vars == <<isMobile, mapReady, mapView, mobileMenuOpen, mobilePanelView,
          predictionResult, appliedBy, panel, reqs, estIn, estOut, estLocals,
          hazardSites, aqiStations, loading, error, dataSource, setBy, loads,
          searchTimers, visibleLayers, aqiIcon, locationFinder, edgeClient>>

\* ------------------------------------------------------- the chemical list
\* rows of chemical_properties as fetchChemicalOptions returns them
Catalog == << [id |-> 1, hazard_type |-> "gas"], [id |-> 2, hazard_type |-> "liquid"] >>

\* what fetchChemicalOptions resolves to: the rows, or [] (no configuration,
\* Supabase error); it never rejects
ChemicalOptionResults == {Catalog, <<>>}

\* === between the number id and the Select's string value: never equal
findChemical_strict(chemicals, id) == <<>>

\* chemicals.find((c) => c.id === selectedChemicalId): <<>> when there is none
findChemical(chemicals, id) ==
  LET hits == {i \in 1 .. Len(chemicals) : chemicals[i].id = id} IN
    IF hits = {} THEN <<>>
    ELSE <<chemicals[CHOOSE i \in hits : \A j \in hits : i <= j]>>

\* -------------------------------------------------------- stack parameters
\* parseFloat of a field's text: [nan |-> TRUE] or a number
NumberTexts == {"0", "1", "10", "20"}

textValue(t) == CASE t = "0" -> 0 [] t = "1" -> 1 [] t = "10" -> 10 [] t = "20" -> 20

parseFloat(t) ==
  IF t \in NumberTexts THEN [kind |-> "number", val |-> textValue(t)]
  ELSE [kind |-> "NaN", val |-> 0]

Undefined == [kind |-> "undefined", val |-> 0]

\* parseFloat(text) || undefined: NaN and 0 are falsy
stackParam(t) ==
  LET v == parseFloat(t) IN
    IF v.kind = "NaN" \/ v.val = 0 THEN Undefined ELSE v

\* text !== '' && isNaN(param ?? 0)
stackFieldInvalid(t) ==
  LET v == stackParam(t)
      w == IF v.kind = "undefined" THEN [kind |-> "number", val |-> 0] ELSE v
  IN  t # "" /\ w.kind = "NaN"

\* stackHeight, stackDiameter, exitVelocity, exitTemperatureOffset
DefaultStack == <<"10", "1", "10", "20">>

stackInvalid(stack) == \E i \in 1 .. Len(stack) : stackFieldInvalid(stack[i])

\* --------------------------------------------------------- PredictionPanel
ErrMapNotReady == "Map not ready. Please wait a moment and try again."
ErrNoChemical == "Please select a chemical first."
ErrStack == "Invalid input. Stack parameters must be numbers."
ErrChemicalNotFound ==
  "Failed to run prediction: Selected chemical not found or list not loaded. Please try again."
ErrRejected == "Failed to run prediction: rejected. Please try again."

\* the useState initial values of a PredictionPanel; selectedChemicalId 0 is null
PanelInitial ==
  [mounted |-> TRUE, chemicals |-> <<>>, selectedChemicalId |-> 0,
   loading |-> FALSE, loadingChemicals |-> TRUE, error |-> "",
   weather |-> <<>>, stack |-> DefaultStack]

\* no PredictionPanel is rendered
PanelNone == [PanelInitial EXCEPT !.mounted = FALSE, !.loadingChemicals = FALSE]

\* <Button disabled={loading || loadingChemicals || selectedChemicalId === null}>
simulateDisabled(p) == p.loading \/ p.loadingChemicals \/ p.selectedChemicalId = 0

\* which panel the layout renders: the desktop one always, the mobile one
\* while mobilePanelView is "prediction"
panelRendered(mobile, view) == ~mobile \/ view = "prediction"

EndpointWeather == "/get-weather-data"
EndpointPrediction == "/run-dispersion-prediction"

\* one handleSimulate call past validation.
\*   phase     "weather" (getWeatherData awaited), "predict" (runPrediction
\*             awaited), "done" (result delivered), "failed" (catch block ran)
\*   live      its panel instance is still mounted (setState has an effect)
\*   mobile    the onPredictionResult it was given is the mobile one
\*   center, chemicals, selectedChemicalId, stack: values of its closure
\*   inflight  the fetches it has sent that have not ended
\*   geo       history: the response a successful remote attempt returned
\*   payloads  history: the payloads its fetches of the prediction endpoint sent
newRequest(p, center, mobile) ==
  [phase |-> "weather", live |-> TRUE, mobile |-> mobile, center |-> center,
   chemicals |-> p.chemicals, selectedChemicalId |-> p.selectedChemicalId,
   stack |-> p.stack, rb |-> retryStart, inflight |-> {EndpointWeather},
   weatherData |-> <<>>, params |-> <<>>, geo |-> <<>>, result |-> <<>>,
   payloads |-> {}]

\* setState of a component that is no longer mounted does nothing
panelSet(q, p, new) == IF q.live THEN new ELSE p

\* ------------------------------------------------------- the data arrays
\* An array object: ref is its identity (what === compares), items the ids
\* of its elements.  Every array parsed from a response is a new object.
Array(ref, items) == [ref |-> ref, items |-> items]

\* api-client: the module-level mock arrays the fetch functions fall back to
mockHazardSites ==
  Array("api-client.mockHazardSites",
        <<"m1", "m2", "m3", "m4", "m5", "m6", "m7", "m8", "m9", "m10", "m11",
          "m12", "m13", "m14", "m15">>)
mockAQIStations ==
  Array("api-client.mockAQIStations", <<"a1", "a2", "a3", "a4", "a5">>)

\* map-component: its own module-level constants of the same names, both []
componentMockHazardSites == Array("map-component.mockHazardSites", <<>>)
componentMockAQIStations == Array("map-component.mockAQIStations", <<>>)

\* a === b on arrays
SameArray(a, b) == a.ref = b.ref

\* useState([]), useState(true), useState(null), useState("api")
InitData ==
  /\ hazardSites = Array("useState", <<>>)
  /\ aqiStations = Array("useState", <<>>)
  /\ loading = TRUE
  /\ error = ""
  /\ dataSource = "api"
  /\ setBy = [hazardSites |-> 0, aqiStations |-> 0]
  /\ loads = <<>>
  /\ searchTimers = 0

\* -------------------------------------------- layers, icons, LocationFinder
\* useState({ hazardSites: true, aqiStations: true, prediction: true })
LayerNames == {"hazardSites", "aqiStations", "prediction"}

\* aqiIcon while createAQIIcon is not called
IconIdle == [aqi |-> 0, color |-> ""]

\* useState("idle"), useState(null); pending: the getCurrentPosition calls
\* that have not called back; timers: the pending 2 s timers
FinderInitial ==
  [locationStatus |-> "idle", errorMessage |-> "", pending |-> 0, timers |-> 0,
   geolocation |-> TRUE, reported |-> <<>>]

\* let edgeFunctionsAvailable: boolean | null = null, and no call made
EdgeInitial ==
  [edgeFunctionsAvailable |-> <<>>, configured |-> TRUE, falseResult |-> FALSE,
   calls |-> <<>>]

InitExtra ==
  /\ visibleLayers = [k \in LayerNames |-> TRUE]
  /\ aqiIcon = IconIdle
  /\ locationFinder = FinderInitial
  /\ edgeClient = EdgeInitial

\* ------------------------------------------------------------------- Init
\* where the user has panned the map to before simulating
Centers == {Location(45 * DegUnit, -90 * DegUnit)}

initialZoom == 4
predictionZoom == 12

\* estIn while clientSidePrediction is not called directly
EstIdle ==
  [location |-> Location(0, 0), weather |-> weatherFallback,
   hazardType |-> "", chemical_id |-> 0]

InitApp ==
  /\ isMobile \in BOOLEAN
  /\ mapReady = FALSE
  /\ mapView \in {[center |-> c, zoom |-> initialZoom] : c \in Centers}
  /\ mobileMenuOpen = FALSE
  /\ mobilePanelView = "controls"
  /\ predictionResult = <<>>
  /\ appliedBy = 0
  /\ panel = IF panelRendered(isMobile, "controls") THEN PanelInitial ELSE PanelNone
  /\ reqs = <<>>

Init == InitApp /\ InitData /\ InitExtra /\ estIn = EstIdle /\ estOut = <<>> /\ estLocals = <<>>

\* ------------------------------------------------------------ MapComponent
\* MapContainer has created the map and set mapRef.current
MapCreated ==
  /\ ~mapReady
  /\ mapReady' = TRUE
  /\ UNCHANGED <<isMobile, mapView, mobileMenuOpen, mobilePanelView,
                 predictionResult, appliedBy, panel, reqs, estVars, extraVars, dataVars>>

\* the two round buttons of the mobile layout
toggleMobilePanel(view) ==
  /\ isMobile
  /\ IF mobilePanelView = view /\ mobileMenuOpen
       THEN mobileMenuOpen' = FALSE /\ mobilePanelView' = mobilePanelView
       ELSE mobilePanelView' = view /\ mobileMenuOpen' = TRUE
  /\ LET was == panelRendered(isMobile, mobilePanelView)
         now == panelRendered(isMobile, mobilePanelView')
     IN  /\ panel' = IF was /\ ~now THEN PanelNone
                     ELSE IF ~was /\ now THEN PanelInitial
                     ELSE panel
         /\ reqs' = IF was /\ ~now
                      THEN [i \in 1 .. Len(reqs) |-> [reqs[i] EXCEPT !.live = FALSE]]
                      ELSE reqs
  /\ UNCHANGED <<isMobile, mapReady, mapView, predictionResult, appliedBy, estVars, extraVars, dataVars>>

\* the callback does not store the result
handlePredictionResult_dropped(r, result) ==
  /\ UNCHANGED <<predictionResult, appliedBy, mapView>>
  /\ mobileMenuOpen' = IF reqs[r].mobile THEN FALSE ELSE mobileMenuOpen
  /\ UNCHANGED <<isMobile, mapReady, mobilePanelView>>

\* setPredictionResult(result); mapRef.current.setView(center, 12); the mobile
\* mount's callback also closes the menu
handlePredictionResult(r, result) ==
  /\ predictionResult' = <<result>>
  /\ appliedBy' = r
  /\ mapView' = IF mapReady THEN [center |-> result.center, zoom |-> predictionZoom]
                ELSE mapView
  /\ mobileMenuOpen' = IF reqs[r].mobile THEN FALSE ELSE mobileMenuOpen
  /\ UNCHANGED <<isMobile, mapReady, mobilePanelView>>

\* --------------------------------------------------------- PredictionPanel
\* loadChemicals: fetchChemicalOptions has resolved.  selectedChemicalId is
\* the mount-time value of the effect's closure: null.
loadChemicals(options) ==
  /\ panel.mounted /\ panel.loadingChemicals
  /\ panel' = [panel EXCEPT
                 !.chemicals = options,
                 !.selectedChemicalId = IF Len(options) > 0 THEN options[1].id ELSE @,
                 !.loadingChemicals = FALSE]
  /\ UNCHANGED <<mapVars, predictionResult, appliedBy, reqs, estVars, extraVars, dataVars>>

\* the Select: onValueChange={(value) => setSelectedChemicalId(Number(value))}
selectChemical(i) ==
  /\ panel.mounted
  /\ ~(panel.loadingChemicals \/ Len(panel.chemicals) = 0)
  /\ i \in 1 .. Len(panel.chemicals)
  /\ panel.chemicals[i].id # panel.selectedChemicalId
  /\ panel' = [panel EXCEPT !.selectedChemicalId = panel.chemicals[i].id]
  /\ UNCHANGED <<mapVars, predictionResult, appliedBy, reqs, estVars, extraVars, dataVars>>

\* the map check left out
validationError_noMapCheck(ready, p) ==
  IF p.selectedChemicalId = 0 THEN ErrNoChemical
  ELSE IF stackInvalid(p.stack) THEN ErrStack
  ELSE ""

\* handleSimulate's validation: the error it sets, "" when the input passes
validationError(ready, p) ==
  IF ~ready THEN ErrMapNotReady
  ELSE IF p.selectedChemicalId = 0 THEN ErrNoChemical
  ELSE IF stackInvalid(p.stack) THEN ErrStack
  ELSE ""

\* handleSimulate up to its first await: validation, setLoading(true),
\* setError(null), getCenter(), the first fetch of getWeatherData
handleSimulate ==
  /\ panel.mounted /\ ~simulateDisabled(panel)
  /\ LET err == validationError(mapReady, panel) IN
       IF err # ""
         THEN /\ panel' = [panel EXCEPT !.error = err]
              /\ reqs' = reqs
         ELSE /\ Len(reqs) < MaxRequests
              /\ panel' = [panel EXCEPT !.loading = TRUE, !.error = ""]
              /\ reqs' = Append(reqs, newRequest(panel, mapView.center, isMobile))
  /\ UNCHANGED <<mapVars, predictionResult, appliedBy, estVars, extraVars, dataVars>>

\* no finally block: loading keeps its value
simulateFailed_noFinally(r, message) ==
  /\ reqs' = [reqs EXCEPT ![r].phase = "failed", ![r].inflight = {},
                          ![r].rb = retryStart]
  /\ panel' = panelSet(reqs[r], panel, [panel EXCEPT !.error = message])
  /\ UNCHANGED <<mapVars, predictionResult, appliedBy>>

\* the catch and finally blocks of handleSimulate
simulateFailed(r, message) ==
  /\ reqs' = [reqs EXCEPT ![r].phase = "failed", ![r].inflight = {},
                          ![r].rb = retryStart]
  /\ panel' = panelSet(reqs[r], panel,
                       [panel EXCEPT !.error = message, !.loading = FALSE])
  /\ UNCHANGED <<mapVars, predictionResult, appliedBy>>

\* the weather argument is not the fetched one
predictionParams_defaultWeather(q, selectedChemical, weatherData) ==
  [location |-> q.center, hazardType |-> selectedChemical.hazard_type,
   chemical_id |-> q.selectedChemicalId, weather |-> weatherFallback,
   stack |-> [i \in 1 .. Len(q.stack) |-> stackParam(q.stack[i])]]

\* const predictionParams = { location, hazardType, chemical_id, weather, ...stackParams }
predictionParams(q, selectedChemical, weatherData) ==
  [location |-> q.center, hazardType |-> selectedChemical.hazard_type,
   chemical_id |-> q.selectedChemicalId, weather |-> weatherData,
   stack |-> [i \in 1 .. Len(q.stack) |-> stackParam(q.stack[i])]]

\* handleSimulate from the end of await getWeatherData to the first fetch of
\* runPrediction; c is what getWeatherData settled to
afterWeather(r, c) ==
  LET q == reqs[r] IN
    IF c.rejected THEN simulateFailed(r, ErrRejected)
    ELSE
      LET weatherData == c.value[1]
          selectedChemical == findChemical(q.chemicals, q.selectedChemicalId)
          shown == panelSet(q, panel, [panel EXCEPT !.weather = <<weatherData>>])
      IN  IF selectedChemical = <<>>
            THEN /\ reqs' = [reqs EXCEPT ![r].phase = "failed", ![r].inflight = {},
                                         ![r].rb = retryStart,
                                         ![r].weatherData = <<weatherData>>]
                 /\ panel' = panelSet(q, shown,
                                      [shown EXCEPT !.error = ErrChemicalNotFound,
                                                    !.loading = FALSE])
                 /\ UNCHANGED <<mapVars, predictionResult, appliedBy>>
            ELSE /\ reqs' = [reqs EXCEPT ![r] =
                               [q EXCEPT !.phase = "predict",
                                         !.weatherData = <<weatherData>>,
                                         !.params = <<predictionParams(q, selectedChemical[1],
                                                                       weatherData)>>,
                                         !.rb = retryStart,
                                         !.inflight = {EndpointPrediction},
                                         !.payloads =
                                            {predictionPayload(
                                               predictionParams(q, selectedChemical[1],
                                                                weatherData))}]]
                 /\ panel' = shown
                 /\ UNCHANGED <<mapVars, predictionResult, appliedBy>>

\* handleSimulate from the end of await runPrediction: onPredictionResult,
\* then finally; c is what runPrediction settled to
afterPrediction(r, c, geo) ==
  LET q == reqs[r] IN
    IF c.rejected THEN simulateFailed(r, ErrRejected)
    ELSE /\ reqs' = [reqs EXCEPT ![r].phase = "done", ![r].inflight = {},
                                 ![r].rb = retryStart, ![r].geo = geo,
                                 ![r].result = c.value]
         /\ handlePredictionResult(r, c.value[1])
         /\ panel' = panelSet(q, panel, [panel EXCEPT !.loading = FALSE])

\* a fetch of /get-weather-data ends with outcome o
weatherResponse(r, o) ==
  /\ r \in 1 .. Len(reqs)
  /\ EndpointWeather \in reqs[r].inflight
  /\ LET step == retryWithBackoff(reqs[r].rb, o.kind # "ok") IN
       IF step = "wait"
         THEN /\ reqs' = [reqs EXCEPT ![r].rb = retryWait(@, o.kind),
                                      ![r].inflight = @ \ {EndpointWeather}]
              /\ UNCHANGED <<mapVars, predictionResult, appliedBy, panel>>
         ELSE afterWeather(r, getWeatherData(step, o))
  /\ UNCHANGED <<estVars, extraVars, dataVars>>

\* a fetch of /run-dispersion-prediction ends with outcome o
predictionResponse(r, o) ==
  /\ r \in 1 .. Len(reqs)
  /\ EndpointPrediction \in reqs[r].inflight
  /\ reqs[r].params # <<>>
  /\ LET step == retryWithBackoff(reqs[r].rb, o.kind # "ok") IN
       IF step = "wait"
         THEN /\ reqs' = [reqs EXCEPT ![r].rb = retryWait(@, o.kind),
                                      ![r].inflight = @ \ {EndpointPrediction}]
              /\ UNCHANGED <<mapVars, predictionResult, appliedBy, panel>>
         ELSE afterPrediction(r, runPrediction(step, o, reqs[r].params[1]),
                              IF step = "return" THEN o.body ELSE <<>>)
  /\ UNCHANGED <<estVars, extraVars, dataVars>>

\* the setTimeout of retryWithBackoff fires: the loop calls fn again
backoffTimer(r) ==
  /\ r \in 1 .. Len(reqs)
  /\ reqs[r].rb.state = "waiting"
  /\ reqs' = [reqs EXCEPT ![r].rb = retryResume(@),
                          ![r].inflight = IF reqs[r].phase = "weather"
                                            THEN {EndpointWeather}
                                            ELSE {EndpointPrediction},
                          ![r].payloads = IF reqs[r].phase = "weather" THEN @
                                          ELSE @ \cup {predictionPayload(reqs[r].params[1])}]
  /\ UNCHANGED <<mapVars, predictionResult, appliedBy, panel, estVars, extraVars, dataVars>>

Next ==
  \/ MapCreated
  \/ \E view \in {"controls", "prediction"} : toggleMobilePanel(view)
  \/ \E options \in ChemicalOptionResults : loadChemicals(options)
  \/ \E i \in 1 .. Len(Catalog) : selectChemical(i)
  \/ handleSimulate
  \/ \E r \in 1 .. MaxRequests, o \in WeatherOutcomes : weatherResponse(r, o)
  \/ \E r \in 1 .. MaxRequests, o \in PredictionOutcomes : predictionResponse(r, o)
  \/ \E r \in 1 .. MaxRequests : backoffTimer(r)

Spec == Init /\ [][Next]_vars

\* ------------------------------------ clientSidePrediction called directly
\* The estimator over a grid of arguments: latitudes and wind directions
\* that are multiples of 15 degrees, whole wind speeds, the three hazard
\* classes (gas, liquid, anything else).
MaxWindSpeed == 4

EstLocations ==
  {Location(lat * DegUnit, lng * DegUnit) : lat \in {-45, 0, 30, 60}, lng \in {-90, 15}}

EstWeathers ==
  {WeatherData(ws, wd, 70, 50) :
     ws \in (0 .. MaxWindSpeed) \cup {defaultWindSpeed, 20},
     wd \in {0, 45, 90, 180, defaultWindDirection, 270, 315}}

EstHazardTypes == {"gas", "liquid", "Toxic Gas"}

EstInputs ==
  {[location |-> l, weather |-> w, hazardType |-> h, chemical_id |-> 1] :
     l \in EstLocations, w \in EstWeathers, h \in EstHazardTypes}

InitEst ==
  /\ isMobile = TRUE
  /\ InitApp
  /\ InitData
  /\ InitExtra
  /\ estIn \in EstInputs
  /\ estOut = <<>>
  /\ estLocals = <<>>

estimate ==
  /\ estOut = <<>>
  /\ estOut' = <<clientSidePrediction(estIn.location, estIn.weather,
                                      estIn.hazardType, estIn.chemical_id)>>
  /\ estLocals' = <<ellipseLocals(estIn.weather, estIn.hazardType)>>
  /\ UNCHANGED <<mapVars, predictionResult, appliedBy, panel, reqs, estIn, dataVars,
                 extraVars>>

NextEst == estimate

SpecEst == InitEst /\ [][NextEst]_vars

\* =================================================================== claims

\* C1: the local estimator returns exactly 25 points: the 24 perimeter
\* samples in order, then a closing point whose latitude and longitude are
\* those of point 0.
C1_ClosedRingOf25 ==
  estOut # <<>> =>
    LET polygon == estOut[1].polygon
        samples == ellipsePoints(estIn.location, 270 - estIn.weather.windDirection,
                                 gasAdjust(estIn.weather.windSpeed * AxisPerSpeed,
                                           estIn.hazardType),
                                 (estIn.weather.windSpeed * AxisPerSpeed) \div 2)
    IN  /\ Len(polygon) = 25
        /\ \A i \in 1 .. 24 : polygon[i] = samples[i]
        /\ polygon[25][1] = polygon[1][1]
        /\ polygon[25][2] = polygon[1][2]

\* a gas plume in wind: the 24 samples are not all the same point
C1_Witness ==
  /\ estOut # <<>>
  /\ estIn.hazardType = "gas"
  /\ estIn.weather.windSpeed = 20
  /\ estOut[1].polygon[1] # estOut[1].polygon[7]
  /\ estOut[1].polygon[25] = estOut[1].polygon[1]

\* ------------------------------------------------------------ C2 .. C10
Requests == 1 .. Len(reqs)

\* the local estimator's result for the parameters runPrediction was given
LocalResult(params) ==
  clientSidePrediction(params.location, params.weather, params.hazardType,
                       params.chemical_id)

\* this step ends request r's fetch of endpoint e
FetchEnds(r, e) == e \in reqs[r].inflight /\ e \notin reqs'[r].inflight

\* C2: runPrediction never rejects: no request ends in handleSimulate's catch
\* block, and a runPrediction call that accepted no remote response (every
\* attempt failed: network error, 404, 500, unreadable body) has resolved
\* with the local estimator's 25-point polygon.
C2_RunPredictionNeverRejects ==
  \A r \in Requests :
    /\ reqs[r].phase # "failed"
    /\ reqs[r].phase = "done" =>
         /\ reqs[r].result # <<>>
         /\ reqs[r].geo = <<>> =>
              /\ reqs[r].result[1] = LocalResult(reqs[r].params[1])
              /\ Len(reqs[r].result[1].polygon) = 25

\* a request ended by the fallback: no remote response was accepted
C2_Witness ==
  \E r \in Requests :
    /\ reqs[r].phase = "done"
    /\ reqs[r].geo = <<>>
    /\ Len(reqs[r].result[1].polygon) = 25
    /\ predictionResult = reqs[r].result

\* C3: retryWithBackoff with its defaults: at most 4 calls of fn; the k-th
\* retry is preceded by a wait of 500, 1000, 2000 ms; a wait starts only
\* after a call threw and only while fewer than 4 calls were made; a call is
\* made again only when a wait has ended; a successful call ends the
\* getWeatherData phase with its value and no further call.
C3_BackoffSchedule ==
  /\ [](\A r \in Requests : reqs[r].phase \in {"weather", "predict"} =>
          LET rb == reqs[r].rb IN
            /\ rb.calls <= 4
            /\ Len(rb.waits) <= 3
            /\ \A k \in 1 .. Len(rb.waits) : rb.waits[k] = <<500, 1000, 2000>>[k]
            /\ rb.state = "calling" => rb.calls = Len(rb.waits) + 1
            /\ rb.state = "waiting" =>
                 /\ rb.calls = Len(rb.waits)
                 /\ rb.last \in {"network", "http404", "http500", "malformed"}
                 /\ reqs[r].inflight = {})
  /\ [][\A r \in Requests :
          /\ reqs'[r].rb.state = "waiting" /\ reqs[r].rb.state # "waiting"
               => reqs[r].rb.calls < 4
          /\ (reqs'[r].phase = reqs[r].phase /\ reqs'[r].rb.calls # reqs[r].rb.calls)
               => /\ reqs[r].rb.state = "waiting"
                  /\ reqs'[r].rb.calls = reqs[r].rb.calls + 1
          /\ \A o \in WeatherOutcomes :
               (FetchEnds(r, EndpointWeather) /\ o.kind = "ok" /\ weatherResponse(r, o)) =>
                 /\ reqs'[r].phase = "predict"
                 /\ reqs'[r].weatherData = o.body
                 /\ EndpointWeather \notin reqs'[r].inflight]_vars

\* the 4th call of runPrediction's fn is awaited, after waits of 500, 1000
\* and 2000 ms, in a request whose getWeatherData used up its 4 calls
C3_Witness ==
  \E r \in Requests :
    /\ reqs[r].phase = "predict"
    /\ reqs[r].weatherData = <<weatherFallback>>
    /\ reqs[r].rb.calls = 4
    /\ reqs[r].rb.state = "calling"
    /\ reqs[r].rb.waits = <<500, 1000, 2000>>

\* C4: a 404 is not retried: no backoff wait follows a 404 response.
C4_NoWaitAfter404 ==
  \A r \in Requests :
    ~(reqs[r].rb.state = "waiting" /\ reqs[r].rb.last = "http404")

\* C5: within one runPrediction call the local estimator's result is
\* returned only by the 4th attempt failing (after waits of 500, 1000 and
\* 2000 ms); a call that accepted a remote response returns the remote
\* polygon (the ring with every pair swapped), not the local one; a finished
\* call sends nothing more and stays finished.
C5_RemoteThenFallback ==
  /\ [][\A r \in Requests :
          (reqs[r].phase = "predict" /\ reqs'[r].phase = "done"
             /\ reqs'[r].geo = <<>>) =>
            /\ reqs[r].rb.state = "calling"
            /\ reqs[r].rb.calls = 4
            /\ reqs[r].rb.waits = <<500, 1000, 2000>>]_vars
  /\ [](\A r \in Requests : reqs[r].phase = "done" =>
          /\ reqs[r].inflight = {}
          /\ reqs[r].rb.state # "waiting"
          /\ reqs[r].geo # <<>> =>
               LET ring == reqs[r].geo[1].ring IN
                 /\ reqs[r].result[1].polygon =
                      [i \in 1 .. Len(ring) |-> <<ring[i][2], ring[i][1]>>]
                 /\ reqs[r].result[1].polygon # LocalResult(reqs[r].params[1]).polygon)
  /\ [][\A r \in Requests : reqs[r].phase = "done" =>
          reqs'[r].phase = "done" /\ reqs'[r].result = reqs[r].result]_vars

\* a request ended by an accepted remote response
C5_Witness ==
  \E r \in Requests :
    /\ reqs[r].phase = "done"
    /\ reqs[r].geo # <<>>
    /\ reqs[r].result[1].polygon = swapRing(reqs[r].geo[1].ring)
    /\ predictionResult = reqs[r].result

\* The desktop layout (one PredictionPanel, mounted for good), with every
\* fetch ending and every backoff timer firing.
InitDesktop == Init /\ ~isMobile

\* the round buttons that call toggleMobilePanel are not rendered there
NextDesktop ==
  \/ MapCreated
  \/ \E options \in ChemicalOptionResults : loadChemicals(options)
  \/ \E i \in 1 .. Len(Catalog) : selectChemical(i)
  \/ handleSimulate
  \/ \E r \in 1 .. MaxRequests, o \in WeatherOutcomes : weatherResponse(r, o)
  \/ \E r \in 1 .. MaxRequests, o \in PredictionOutcomes : predictionResponse(r, o)
  \/ \E r \in 1 .. MaxRequests : backoffTimer(r)

FairSpec ==
  /\ InitDesktop
  /\ [][NextDesktop]_vars
  /\ \A r \in 1 .. MaxRequests :
       /\ WF_vars(\E o \in WeatherOutcomes : weatherResponse(r, o))
       /\ WF_vars(\E o \in PredictionOutcomes : predictionResponse(r, o))
       /\ WF_vars(backoffTimer(r))

C7_WeatherNeverRejects ==
  [][\A r \in Requests : \A o \in WeatherOutcomes :
       (FetchEnds(r, EndpointWeather) /\ weatherResponse(r, o)) =>
         /\ reqs'[r].phase \in {"weather", "predict"}
         /\ o.kind = "ok" =>
              reqs'[r].phase = "predict" /\ reqs'[r].weatherData = o.body
         /\ (o.kind # "ok" /\ reqs[r].rb.calls = 4) =>
              /\ reqs'[r].phase = "predict"
              /\ reqs'[r].weatherData =
                   <<[windSpeed |-> 12, windDirection |-> 225,
                      temperature |-> 72, humidity |-> 45]>>]_vars

\* the default weather is what the panel shows and what runPrediction got
C7_Witness ==
  \E r \in Requests :
    /\ reqs[r].phase = "predict"
    /\ reqs[r].weatherData[1].windSpeed = 12
    /\ reqs[r].weatherData[1].windDirection = 225
    /\ reqs[r].live
    /\ panel.weather = reqs[r].weatherData

\* C8: within one request no dispersion-model fetch is sent while the weather
\* fetch, its retries or its waits are pending; at most one fetch is in
\* flight; runPrediction is given the weather getWeatherData returned.
C8_WeatherBeforePrediction ==
  \A r \in Requests :
    /\ Cardinality(reqs[r].inflight) <= 1
    /\ reqs[r].phase = "weather" =>
         /\ EndpointPrediction \notin reqs[r].inflight
         /\ reqs[r].params = <<>>
         /\ reqs[r].weatherData = <<>>
    /\ (EndpointPrediction \in reqs[r].inflight \/ reqs[r].params # <<>>) =>
         /\ reqs[r].phase \in {"predict", "done"}
         /\ reqs[r].weatherData # <<>>
         /\ reqs[r].params # <<>>
         /\ reqs[r].params[1].weather = reqs[r].weatherData[1]
         /\ EndpointWeather \notin reqs[r].inflight

\* the dispersion request is in flight with the weather the service answered
C8_Witness ==
  \E r \in Requests :
    /\ reqs[r].inflight = {EndpointPrediction}
    /\ reqs[r].weatherData[1] \in WeatherResponses
    /\ reqs[r].params[1].weather = reqs[r].weatherData[1]

\* C9: with the map reference null or no chemical selected, handleSimulate
\* sets an error message and does nothing else: no request is sent, no
\* result is delivered, loading stays false.
C9_InvalidInputRejected ==
  [][(handleSimulate /\ (~mapReady \/ panel.selectedChemicalId = 0)) =>
       /\ panel'.error # ""
       /\ ~panel'.loading
       /\ reqs' = reqs
       /\ predictionResult' = predictionResult
       /\ appliedBy' = appliedBy]_vars

\* Simulate was clicked before the map was created
C9_Witness ==
  /\ ~mapReady
  /\ panel.mounted
  /\ panel.selectedChemicalId # 0
  /\ panel.error = "Map not ready. Please wait a moment and try again."
  /\ ~panel.loading
  /\ reqs = <<>>

\* C10: the visible prediction is never the result of a request that was
\* started before another request whose result was already delivered.
C10_LatestRequestWins ==
  appliedBy # 0 =>
    \A r \in Requests : (r > appliedBy) => reqs[r].phase # "done"

\* C13: every result runPrediction returned, remote or local, has a
\* polygon that is a closed ring (last point = first point) of at least 4
\* points.
C13_ClosedRingAtLeast4 ==
  \A r \in Requests :
    reqs[r].phase = "done" =>
      LET polygon == reqs[r].result[1].polygon IN
        /\ Len(polygon) >= 4
        /\ polygon[Len(polygon)] = polygon[1]

\* C14: on the remote path the result polygon is the response's ring with
\* each [lng, lat] pair swapped to [lat, lng]: as many points, in the same
\* order, point i being (ring[i][1], ring[i][0]) in the source's indexing.
C14_RemoteRingSwapped ==
  \A r \in Requests :
    (reqs[r].phase = "done" /\ reqs[r].geo # <<>>) =>
      LET ring == reqs[r].geo[1].ring
          polygon == reqs[r].result[1].polygon
      IN  /\ Len(polygon) = Len(ring)
          /\ \A i \in 1 .. Len(ring) :
               /\ polygon[i][1] = ring[i][2]
               /\ polygon[i][2] = ring[i][1]

\* the three-point ring of a response arrives swapped
C14_Witness ==
  \E r \in Requests :
    /\ reqs[r].phase = "done"
    /\ reqs[r].geo # <<>>
    /\ reqs[r].geo[1].ring = RingOpen
    /\ reqs[r].result[1].polygon[2] = <<4072000, -7400000>>

\* ------------------------------------ the panel with api-client mocked
\* PredictionPanel as prediction-panel.test.tsx runs it: getWeatherData and
\* runPrediction are jest mocks that resolve with a fixed value or reject.
mockWeatherData == WeatherData(10, 180, 75, 60)

mockPredictionResult ==
  [center |-> Location(4071280, -7400600),
   polygon |-> << <<4071000, -7400000>>, <<4072000, -7400000>>,
                  <<4071000, -7399000>> >>,
   properties |-> [hazardType |-> "Toxic Gas",
                   windSpeed |-> mockWeatherData.windSpeed,
                   windDirection |-> mockWeatherData.windDirection,
                   chemical |-> <<>>,
                   model_type |-> ""]]

\* mockResolvedValue(...) / mockRejectedValue(new Error(...))
MockWeatherSettlements == {Resolved(mockWeatherData), Rejected}
MockPredictionSettlements == {Resolved(mockPredictionResult), Rejected}

\* the promise of the mocked getWeatherData settles
weatherSettles(r, c) ==
  /\ r \in 1 .. Len(reqs)
  /\ reqs[r].phase = "weather"
  /\ afterWeather(r, c)
  /\ UNCHANGED <<estVars, extraVars, dataVars>>

\* the promise of the mocked runPrediction settles
predictionSettles(r, c) ==
  /\ r \in 1 .. Len(reqs)
  /\ reqs[r].phase = "predict"
  /\ afterPrediction(r, c, <<>>)
  /\ UNCHANGED <<estVars, extraVars, dataVars>>

NextMocked ==
  \/ MapCreated
  \/ \E view \in {"controls", "prediction"} : toggleMobilePanel(view)
  \/ \E options \in ChemicalOptionResults : loadChemicals(options)
  \/ \E i \in 1 .. Len(Catalog) : selectChemical(i)
  \/ handleSimulate
  \/ \E r \in 1 .. MaxRequests, c \in MockWeatherSettlements : weatherSettles(r, c)
  \/ \E r \in 1 .. MaxRequests, c \in MockPredictionSettlements :
       predictionSettles(r, c)

SpecMocked == Init /\ [][NextMocked]_vars

\* a handleSimulate call between setLoading(true) and its finally block
InFlight(r) == reqs[r].phase \in {"weather", "predict"}

\* C19: the panel's loading flag is true only while a simulation it started
\* is in flight, and false after each way the simulation ends (success,
\* getWeatherData rejecting, runPrediction rejecting, chemical not found);
\* after a failed attempt the Simulate button is enabled again.
C19_LoadingWhileInFlight ==
  /\ panel.loading <=> \E r \in Requests : reqs[r].live /\ InFlight(r)
  /\ \A r \in Requests :
       (reqs[r].live /\ reqs[r].phase = "failed"
          /\ ~\E r2 \in Requests : reqs[r2].live /\ InFlight(r2)) =>
         /\ panel.mounted
         /\ ~simulateDisabled(panel)

\* getWeatherData rejected, and runPrediction rejected in a later attempt
C19_Witness ==
  /\ Len(reqs) = 2
  /\ reqs[1].live /\ reqs[1].phase = "failed" /\ reqs[1].weatherData = <<>>
  /\ reqs[2].live /\ reqs[2].phase = "failed" /\ reqs[2].weatherData # <<>>
  /\ ~panel.loading
  /\ panel.error = ErrRejected
  /\ ~simulateDisabled(panel)

\* C20: onPredictionResult is called at most once per simulate action and
\* with the value runPrediction resolved to; it is not called when
\* getWeatherData or runPrediction rejects, and when getWeatherData rejects
\* runPrediction is not called.
C20_CallbackOncePerSimulate ==
  /\ [][\A r \in Requests :
          /\ (reqs[r].phase = "weather" /\ reqs'[r].phase = "failed") =>
               /\ reqs'[r].params = <<>>
               /\ UNCHANGED <<predictionResult, appliedBy>>
          /\ (reqs[r].phase = "predict" /\ reqs'[r].phase = "failed") =>
               UNCHANGED <<predictionResult, appliedBy>>
          /\ (reqs[r].phase # "done" /\ reqs'[r].phase = "done") =>
               /\ reqs[r].phase = "predict"
               /\ predictionResult' = <<mockPredictionResult>>
               /\ appliedBy' = r
          /\ reqs[r].phase \in {"done", "failed"} =>
               reqs'[r].phase = reqs[r].phase]_vars
  /\ [][(predictionResult' # predictionResult \/ appliedBy' # appliedBy) =>
          \E r \in Requests : reqs[r].phase = "predict" /\ reqs'[r].phase = "done"]_vars

\* one attempt ended by a rejection, the other delivered
C20_Witness ==
  /\ Len(reqs) = 2
  /\ reqs[1].phase = "failed" /\ reqs[1].params = <<>>
  /\ reqs[2].phase = "done"
  /\ appliedBy = 2
  /\ predictionResult = <<mockPredictionResult>>

\* ------------------------------------------- MapComponent: loadMapData
\* Calls of loadMapData that one run of the model starts.
MaxLoads == 2

searchZoom == 10

\* const defaultBounds = { north: 50, south: 25, east: -65, west: -125 }
defaultBounds ==
  [north |-> 50 * DegUnit, south |-> 25 * DegUnit,
   east |-> -65 * DegUnit, west |-> -125 * DegUnit]

\* mapRef.current.getBounds(): the rectangle around the view's center, the
\* narrower the higher the zoom
getBounds(view) ==
  LET h == IF view.zoom >= searchZoom THEN DegUnit ELSE 20 * DegUnit IN
    [north |-> view.center.lat + h, south |-> view.center.lat - h,
     east |-> view.center.lng + h, west |-> view.center.lng - h]

\* the places SearchLocation finds
SearchResults == {Location(40 * DegUnit, -74 * DegUnit)}

\* how a fetch of the data endpoints can fail
DataFailureKinds == {"network", "http500"}

\* what /get-hazard-sites, /get-aqi-data and /get-aqi-by-city answer: an
\* array (empty or not), or a failure
HazardOutcomes == {Ok(<<>>), Ok(<<"h1">>)} \cup {Failure(k) : k \in DataFailureKinds}
AQIOutcomes == {Ok(<<>>), Ok(<<"s1">>)} \cup {Failure(k) : k \in DataFailureKinds}
CityOutcomes == {Ok(<<>>), Ok(<<"c1">>)} \cup {Failure(k) : k \in DataFailureKinds}

\* what getLocationNameFromCoordinates resolves to: <<>> (null: the request
\* failed or the answer names no place) or <<name>>; it never rejects
LocationNames == {<<>>, <<"New York">>}

\* bounds.north === 50 && bounds.south === 25 && east === -65 && west === -125
isDefaultUsBounds(bounds) ==
  /\ bounds.north = 50 * DegUnit
  /\ bounds.south = 25 * DegUnit
  /\ bounds.east = -65 * DegUnit
  /\ bounds.west = -125 * DegUnit

\* the catch block rethrows
fetchHazardSites_rethrow(step, o, bounds) ==
  IF step = "return"
    THEN IF Len(o.body[1]) = 0 /\ isDefaultUsBounds(bounds)
           THEN Resolved(mockHazardSites)
           ELSE Resolved(Array("response", o.body[1]))
    ELSE Rejected

\* fetchHazardSites once retryWithBackoff has returned or thrown
fetchHazardSites(step, o, bounds) ==
  IF step = "return"
    THEN IF Len(o.body[1]) = 0 /\ isDefaultUsBounds(bounds)
           THEN Resolved(mockHazardSites)
           ELSE Resolved(Array("response", o.body[1]))
    ELSE Resolved(mockHazardSites)

\* fetchAQIDataByCity once retryWithBackoff has returned or thrown
fetchAQIDataByCity(step, o) ==
  IF step = "return" THEN Resolved(Array("response", o.body[1]))
  ELSE Resolved(mockAQIStations)

\* the end of fetchAQIData's wrapped function after the city fallback:
\* cityData when it has elements, else the empty array the bounds query gave
cityFallback(data, c) ==
  IF ~c.rejected /\ Len(c.value[1].items) > 0 THEN c.value[1] ELSE data

\* fetchAQIData once retryWithBackoff has returned (with data) or thrown
fetchAQIData(step, data) ==
  IF step = "return" THEN Resolved(data) ELSE Resolved(mockAQIStations)

\* the values of encounteredError and the message setError is given
ErrHazardSites == "Failed to load hazard site data."
ErrBothData == "Failed to load hazard site data. Also failed to load AQI data."
ErrAirQuality == "Failed to load air quality data."

\* only the first failure is reported
displayedError_first(encounteredError) ==
  IF encounteredError = ErrAirQuality
    THEN "Failed to load air quality data. Displaying mock data instead."
    ELSE "Failed to load hazard site data. Displaying mock data instead."

displayedError(encounteredError) ==
  CASE encounteredError = ErrHazardSites ->
         "Failed to load hazard site data. Displaying mock data instead."
    [] encounteredError = ErrBothData ->
         "Failed to load hazard site data. Also failed to load AQI data. Displaying mock data instead."
    [] encounteredError = ErrAirQuality ->
         "Failed to load air quality data. Displaying mock data instead."

\* how a call of a fetch function ended (history): what it settled to,
\* whether retryWithBackoff threw, and if so after how many calls of the
\* wrapped function
FetchEnd(c, rb, threw) ==
  <<[c |-> c, threw |-> threw, calls |-> IF threw THEN rb.calls ELSE 0]>>

\* the locals of one loadMapData call; hazardEnd, aqiEnd, cityEnd and final
\* are history
newLoad(apiBounds) ==
  [apiBounds |-> apiBounds, phase |-> "hazard", aqiStep |-> "",
   rb |-> retryStart, rbCity |-> retryStart, data |-> <<>>,
   currentDataSource |-> "api", encounteredError |-> "",
   hazardEnd |-> <<>>, aqiEnd |-> <<>>, cityEnd |-> <<>>,
   final |-> <<>>]

\* loadMapData up to its first await: the three setters, apiBounds, and the
\* first fetch of fetchHazardSites
loadMapData(bounds) ==
  /\ Len(loads) < MaxLoads
  /\ loading' = TRUE
  /\ error' = ""
  /\ dataSource' = "api"
  /\ loads' = Append(loads, newLoad(IF bounds # <<>> THEN bounds[1] ELSE defaultBounds))
  /\ UNCHANGED <<hazardSites, aqiStations, setBy>>

\* "Load initial data": the effect after the first render; mapRef.current
\* may or may not be set by then
initialLoad ==
  /\ loads = <<>>
  /\ loadMapData(IF mapReady THEN <<getBounds(mapView)>> ELSE <<>>)
  /\ UNCHANGED <<mapVars, predictionResult, appliedBy, panel, reqs, estVars, extraVars,
                 searchTimers, visibleLayers, aqiIcon, locationFinder, edgeClient>>

\* the desktop SearchLocation's onLocationFound: setView and the 500 ms timer
onLocationFound(loc) ==
  /\ ~isMobile
  /\ loads # <<>>
  /\ mapReady
  /\ Len(loads) + searchTimers < MaxLoads
  /\ mapView' = [center |-> loc, zoom |-> searchZoom]
  /\ searchTimers' = searchTimers + 1
  /\ UNCHANGED <<isMobile, mapReady, mobileMenuOpen, mobilePanelView,
                 predictionResult, appliedBy, panel, reqs, estVars, extraVars,
                 hazardSites, aqiStations, loading, error, dataSource, setBy, loads>>

\* the timer fires: loadMapData(mapRef.current?.getBounds())
searchTimer ==
  /\ searchTimers > 0
  /\ searchTimers' = searchTimers - 1
  /\ loadMapData(<<getBounds(mapView)>>)
  /\ UNCHANGED <<mapVars, predictionResult, appliedBy, panel, reqs, estVars, extraVars>>

\* loadMapData from the end of await fetchHazardSites to the first fetch of
\* fetchAQIData; c is what fetchHazardSites settled to
afterHazardSites(l, c, end) ==
  LET q == loads[l]
      sites == IF c.rejected THEN componentMockHazardSites ELSE c.value[1]
  IN  /\ hazardSites' = sites
      /\ setBy' = [setBy EXCEPT !.hazardSites = l]
      /\ loads' = [loads EXCEPT ![l] =
                     [q EXCEPT !.phase = "aqi", !.aqiStep = "bounds",
                               !.rb = retryStart,
                               !.currentDataSource =
                                  IF c.rejected \/ SameArray(sites, componentMockHazardSites)
                                    THEN "mock" ELSE @,
                               !.encounteredError =
                                  IF c.rejected THEN ErrHazardSites ELSE @,
                               !.hazardEnd = end]]
      /\ UNCHANGED <<aqiStations, loading, error, dataSource, searchTimers>>

\* loadMapData from the end of await fetchAQIData to its end; c is what
\* fetchAQIData settled to
afterAQIData(l, c, end, cityEnd) ==
  LET q == loads[l]
      aqi == IF c.rejected THEN componentMockAQIStations ELSE c.value[1]
      currentDataSource ==
        IF c.rejected \/ SameArray(aqi, componentMockAQIStations)
          THEN "mock" ELSE q.currentDataSource
      encounteredError ==
        IF ~c.rejected THEN q.encounteredError
        ELSE IF q.encounteredError # "" THEN ErrBothData ELSE ErrAirQuality
      shownError ==
        IF encounteredError # "" THEN displayedError(encounteredError) ELSE error
  IN  /\ aqiStations' = aqi
      /\ setBy' = [setBy EXCEPT !.aqiStations = l]
      /\ dataSource' = currentDataSource
      /\ error' = shownError
      /\ loading' = FALSE
      /\ loads' = [loads EXCEPT ![l] =
                     [q EXCEPT !.phase = "done", !.aqiStep = "",
                               !.rb = retryStart, !.rbCity = retryStart,
                               !.data = <<>>,
                               !.currentDataSource = currentDataSource,
                               !.encounteredError = encounteredError,
                               !.aqiEnd = end, !.cityEnd = cityEnd,
                               !.final = <<[dataSource |-> currentDataSource,
                                            error |-> shownError]>>]]
      /\ UNCHANGED <<hazardSites, searchTimers>>

\* a fetch of /get-hazard-sites ends with outcome o
hazardSitesResponse(l, o) ==
  /\ l \in 1 .. Len(loads)
  /\ loads[l].phase = "hazard"
  /\ loads[l].rb.state = "calling"
  /\ LET step == retryWithBackoff(loads[l].rb, o.kind # "ok") IN
       IF step = "wait"
         THEN /\ loads' = [loads EXCEPT ![l].rb = retryWait(@, o.kind)]
              /\ UNCHANGED <<hazardSites, aqiStations, loading, error, dataSource,
                             setBy, searchTimers>>
         ELSE afterHazardSites(l, fetchHazardSites(step, o, loads[l].apiBounds),
                               FetchEnd(fetchHazardSites(step, o, loads[l].apiBounds),
                                        loads[l].rb, step = "throw"))
  /\ UNCHANGED <<mapVars, predictionResult, appliedBy, panel, reqs, estVars, extraVars>>

\* a fetch of /get-aqi-data ends with outcome o: a failure is retried, an
\* array with elements is returned, an empty one starts the city fallback
\* (nothing in the fallback throws, so the retry counters are not read again)
aqiDataResponse(l, o) ==
  /\ l \in 1 .. Len(loads)
  /\ loads[l].phase = "aqi"
  /\ loads[l].aqiStep = "bounds"
  /\ loads[l].rb.state = "calling"
  /\ LET step == retryWithBackoff(loads[l].rb, o.kind # "ok") IN
       IF step = "wait"
         THEN /\ loads' = [loads EXCEPT ![l].rb = retryWait(@, o.kind)]
              /\ UNCHANGED <<hazardSites, aqiStations, loading, error, dataSource,
                             setBy, searchTimers>>
         ELSE IF step = "return" /\ Len(o.body[1]) = 0
           THEN /\ loads' = [loads EXCEPT ![l].aqiStep = "geocode",
                                          ![l].rb = retryStart,
                                          ![l].data = <<Array("response", o.body[1])>>]
                /\ UNCHANGED <<hazardSites, aqiStations, loading, error, dataSource,
                               setBy, searchTimers>>
           ELSE LET data == IF step = "return" THEN Array("response", o.body[1])
                            ELSE mockAQIStations
                IN  afterAQIData(l, fetchAQIData(step, data),
                                 FetchEnd(fetchAQIData(step, data), loads[l].rb,
                                          step = "throw"),
                                 <<>>)
  /\ UNCHANGED <<mapVars, predictionResult, appliedBy, panel, reqs, estVars, extraVars>>

\* getLocationNameFromCoordinates has resolved: without a name the empty
\* array is returned, with one fetchAQIDataByCity sends its first fetch
geocodeResponse(l, locationName) ==
  /\ l \in 1 .. Len(loads)
  /\ loads[l].phase = "aqi"
  /\ loads[l].aqiStep = "geocode"
  /\ IF locationName = <<>>
       THEN afterAQIData(l, fetchAQIData("return", loads[l].data[1]),
                         FetchEnd(fetchAQIData("return", loads[l].data[1]),
                                  loads[l].rb, FALSE),
                         <<>>)
       ELSE /\ loads' = [loads EXCEPT ![l].aqiStep = "city", ![l].rbCity = retryStart]
            /\ UNCHANGED <<hazardSites, aqiStations, loading, error, dataSource,
                           setBy, searchTimers>>
  /\ UNCHANGED <<mapVars, predictionResult, appliedBy, panel, reqs, estVars, extraVars>>

\* a fetch of /get-aqi-by-city ends with outcome o
aqiByCityResponse(l, o) ==
  /\ l \in 1 .. Len(loads)
  /\ loads[l].phase = "aqi"
  /\ loads[l].aqiStep = "city"
  /\ loads[l].rbCity.state = "calling"
  /\ LET step == retryWithBackoff(loads[l].rbCity, o.kind # "ok") IN
       IF step = "wait"
         THEN /\ loads' = [loads EXCEPT ![l].rbCity = retryWait(@, o.kind)]
              /\ UNCHANGED <<hazardSites, aqiStations, loading, error, dataSource,
                             setBy, searchTimers>>
         ELSE LET c == fetchAQIDataByCity(step, o)
                  data == cityFallback(loads[l].data[1], c)
              IN  afterAQIData(l, fetchAQIData("return", data),
                               FetchEnd(fetchAQIData("return", data),
                                        loads[l].rb, FALSE),
                               FetchEnd(c, loads[l].rbCity, step = "throw"))
  /\ UNCHANGED <<mapVars, predictionResult, appliedBy, panel, reqs, estVars, extraVars>>

\* a setTimeout of retryWithBackoff fires: the loop calls the wrapped
\* function again
dataBackoffTimer(l) ==
  /\ l \in 1 .. Len(loads)
  /\ \/ /\ loads[l].rb.state = "waiting"
        /\ loads' = [loads EXCEPT ![l].rb = retryResume(@)]
     \/ /\ loads[l].rbCity.state = "waiting"
        /\ loads' = [loads EXCEPT ![l].rbCity = retryResume(@)]
  /\ UNCHANGED <<mapVars, predictionResult, appliedBy, panel, reqs, estVars, extraVars,
                 hazardSites, aqiStations, loading, error, dataSource, setBy,
                 searchTimers, visibleLayers, aqiIcon, locationFinder, edgeClient>>

NextData ==
  \/ MapCreated
  \/ initialLoad
  \/ \E loc \in SearchResults : onLocationFound(loc)
  \/ searchTimer
  \/ \E l \in 1 .. MaxLoads, o \in HazardOutcomes : hazardSitesResponse(l, o)
  \/ \E l \in 1 .. MaxLoads, o \in AQIOutcomes : aqiDataResponse(l, o)
  \/ \E l \in 1 .. MaxLoads, n \in LocationNames : geocodeResponse(l, n)
  \/ \E l \in 1 .. MaxLoads, o \in CityOutcomes : aqiByCityResponse(l, o)
  \/ \E l \in 1 .. MaxLoads : dataBackoffTimer(l)

SpecData == InitDesktop /\ [][NextData]_vars

Loads == 1 .. Len(loads)

\* C11: whenever no loadMapData call is in flight, the hazard sites and the
\* AQI stations on display were produced by the same loadMapData call, also
\* when calls overlap (the initial load and a search-triggered reload).
C11_DatasetsOfOneLoad ==
  (loads # <<>> /\ \A l \in Loads : loads[l].phase = "done") =>
    setBy.hazardSites = setBy.aqiStations

\* C12: a load that finishes with the api-client's mock hazard sites or mock
\* AQI stations ends with dataSource = "mock" or with an error message, so
\* that an advisory is shown.
C12_MockDataFlagged ==
  \A l \in Loads :
    (/\ loads[l].phase = "done"
     /\ \/ loads[l].hazardEnd[1].c.value = <<mockHazardSites>>
        \/ loads[l].aqiEnd[1].c.value = <<mockAQIStations>>) =>
      \/ loads[l].final[1].dataSource = "mock"
      \/ loads[l].final[1].error # ""

\* the ends of the fetch function calls one loadMapData call has made
FetchEnds18(l) ==
  {<<"fetchHazardSites", loads[l].hazardEnd, mockHazardSites>>,
   <<"fetchAQIData", loads[l].aqiEnd, mockAQIStations>>,
   <<"fetchAQIDataByCity", loads[l].cityEnd, mockAQIStations>>}

\* C18: fetchHazardSites, fetchAQIData and fetchAQIDataByCity never reject;
\* when every attempt has failed they resolve with the mock array
\* (mockHazardSites, mockAQIStations).
C18_FetchNeverRejects ==
  \A l \in Loads : \A e \in FetchEnds18(l) :
    e[2] # <<>> =>
      /\ ~e[2][1].c.rejected
      /\ e[2][1].threw =>
           /\ e[2][1].calls = maxRetries + 1
           /\ e[2][1].c.value = <<e[3]>>

\* each of the three functions has run out of attempts once
C18_Witness ==
  /\ Len(loads) = 2
  /\ loads[1].phase = "done" /\ loads[2].phase = "done"
  /\ loads[1].hazardEnd[1].threw
  /\ loads[1].cityEnd # <<>> /\ loads[1].cityEnd[1].threw
  /\ loads[2].aqiEnd[1].threw
  /\ hazardSites.items # <<>>
  /\ aqiStations = mockAQIStations

\* C15: the major axis is windSpeed * 0.0005 * m with m = 2 exactly for the
\* hazard type "gas" and 1 for "liquid" and every other type; for equal wind
\* the gas axis is twice the liquid one and the one of any other type, and
\* the axis grows strictly with the wind speed.
C15_MajorAxis ==
  estLocals # <<>> =>
    LET w == estIn.weather
        h == estIn.hazardType
        m == IF h = "gas" THEN 2 ELSE 1
    IN  /\ estLocals[1].majorAxis = w.windSpeed * AxisPerSpeed * m
        /\ \A h2 \in EstHazardTypes \ {"gas"} :
             ellipseLocals(w, "gas").majorAxis = 2 * ellipseLocals(w, h2).majorAxis
        /\ \A w2 \in EstWeathers :
             w2.windSpeed > w.windSpeed =>
               ellipseLocals(w2, h).majorAxis > estLocals[1].majorAxis

C15_Witness ==
  /\ estLocals # <<>>
  /\ estIn.hazardType = "Toxic Gas"
  /\ estIn.weather.windSpeed = 3
  /\ estLocals[1].majorAxis = 150

\* C16: with windSpeed = 0 both axes are 0 and each of the 25 points is the
\* center, whatever the wind direction and the hazard type.
C16_CalmWind ==
  (estOut # <<>> /\ estIn.weather.windSpeed = 0) =>
    /\ estLocals[1].majorAxis = 0
    /\ estLocals[1].minorAxis = 0
    /\ Len(estOut[1].polygon) = numPoints + 1
    /\ \A i \in 1 .. Len(estOut[1].polygon) :
         estOut[1].polygon[i] = <<estIn.location.lat, estIn.location.lng>>

C16_Witness ==
  /\ estOut # <<>>
  /\ estIn.weather.windSpeed = 0
  /\ estIn.weather.windDirection = 45
  /\ estIn.hazardType = "gas"

\* C17: with windDirection = 270 the heading is 0 and the first sample lies
\* due east of the center: latitude offset 0, longitude offset
\* majorAxis / cos(latitude).
C17_WestWind ==
  (estOut # <<>> /\ estIn.weather.windDirection = 270) =>
    /\ estLocals[1].windDirDeg = 0
    /\ estOut[1].polygon[1] =
         <<estIn.location.lat,
           estIn.location.lng
             + RoundDiv(estLocals[1].majorAxis * TrigScale,
                        CosDeg(estIn.location.lat \div DegUnit))>>

C17_Witness ==
  /\ estOut # <<>>
  /\ estIn.weather.windDirection = 270
  /\ estIn.weather.windSpeed = 20
  /\ estIn.location.lat = 60 * DegUnit
  /\ estOut[1].polygon[1][2] = estIn.location.lng + 2 * 20 * AxisPerSpeed

\* C23: the minor axis is windSpeed * 0.0005 * 0.5 for every hazard type:
\* it is taken before the gas adjustment and is not doubled, so for equal
\* wind gas and the other types have the same minor axis and the gas ellipse
\* is 4 times as long as it is wide (wind 20, gas: major 0.02, minor 0.005).
C23_MinorAxis ==
  estLocals # <<>> =>
    LET w == estIn.weather IN
      /\ 2 * estLocals[1].minorAxis = w.windSpeed * AxisPerSpeed
      /\ \A h \in EstHazardTypes :
           ellipseLocals(w, h).minorAxis = estLocals[1].minorAxis
      /\ estIn.hazardType = "gas" =>
           estLocals[1].majorAxis = 4 * estLocals[1].minorAxis
      /\ (estIn.hazardType = "gas" /\ w.windSpeed = 20) =>
           /\ estLocals[1].majorAxis = 2000
           /\ estLocals[1].minorAxis = 500

C23_Witness ==
  /\ estLocals # <<>>
  /\ estIn.hazardType = "gas"
  /\ estIn.weather.windSpeed = 20
  /\ estLocals[1].minorAxis = 500
  /\ estOut[1].polygon[7][1] # estIn.location.lat

\* params that differ from the given ones in the weather, the hazard type
\* and the stack parameters only
ParamVariants(params) ==
  {[params EXCEPT !.weather = w, !.hazardType = h, !.stack = st] :
     w \in {weatherFallback, mockWeatherData},
     h \in EstHazardTypes,
     st \in {[i \in 1 .. 4 |-> stackParam(DefaultStack[i])],
             [i \in 1 .. 4 |-> stackParam("20")],
             [i \in 1 .. 4 |-> Undefined]}}

\* C28: the request sent to the remote model depends only on the location
\* and the chemical id: calls of runPrediction that agree on location.lat,
\* location.lng and chemical_id send the same payload on every attempt,
\* whatever weather, hazardType and stack parameters params holds.
C28_PayloadOfLocationAndChemical ==
  \A r \in Requests :
    reqs[r].params # <<>> =>
      LET params == reqs[r].params[1] IN
        /\ reqs[r].payloads =
             {[latitude |-> params.location.lat, longitude |-> params.location.lng,
               chemical_id |-> params.chemical_id]}
        /\ \A p2 \in ParamVariants(params) : predictionPayload(p2) \in reqs[r].payloads
        /\ \A r2 \in Requests :
             (/\ reqs[r2].params # <<>>
              /\ reqs[r2].params[1].location = params.location
              /\ reqs[r2].params[1].chemical_id = params.chemical_id) =>
               reqs[r2].payloads = reqs[r].payloads

\* two calls with the same location and chemical but different weather, the
\* first of them after four attempts
C28_Witness ==
  /\ Len(reqs) = 2
  /\ reqs[1].phase = "done" /\ reqs[1].geo = <<>>
  /\ reqs[2].params # <<>>
  /\ reqs[2].rb.calls = 2 /\ reqs[2].phase = "predict"
  /\ reqs[1].params[1].chemical_id = reqs[2].params[1].chemical_id
  /\ reqs[1].params[1].weather # reqs[2].params[1].weather
  /\ reqs[1].payloads = reqs[2].payloads

\* C27: fetchAQIData returns a non-empty bounds response as it is, without
\* a geocoding or city request; for an empty one it returns the city result
\* only if that is non-empty, else the empty array; and the mock AQI
\* stations are returned only when the bounds request failed on every
\* attempt.
C27_AQIFallbackOrder ==
  \A l \in Loads :
    loads[l].aqiEnd # <<>> =>
      LET aqi == loads[l].aqiEnd[1].c.value[1]
          city == loads[l].cityEnd
      IN  /\ (aqi.ref = "response" /\ aqi.items = <<"s1">>) => city = <<>>
          /\ (city # <<>> /\ city[1].c.value[1].items # <<>>) =>
               aqi = city[1].c.value[1]
          /\ (city # <<>> /\ city[1].c.value[1].items = <<>>) =>
               aqi = Array("response", <<>>)
          /\ aqi = mockAQIStations =>
               loads[l].aqiEnd[1].threw /\ loads[l].aqiEnd[1].calls = maxRetries + 1

\* C29: MapComponent's loading flag is true whenever at least one
\* loadMapData call is in flight, also when calls overlap: the overlay is not
\* hidden while a later load has not finished.
C29_LoadingWhileAnyLoad ==
  (\E l \in Loads : loads[l].phase # "done") => loading

\* ------------------------------- MapComponent with api-client mocked
\* MapComponent as map-component.test.tsx runs it: fetchHazardSites and
\* fetchAQIData are jest mocks that resolve with the test's arrays or reject.
mockHazardSitesData == Array("mockHazardSitesData", <<"h1", "h2">>)
mockAqiData == Array("mockAqiData", <<"a1", "a2">>)

MockHazardSettlements == {Resolved(mockHazardSitesData), Rejected}
MockAQISettlements == {Resolved(mockAqiData), Rejected}

\* the promise of the mocked fetchHazardSites settles
hazardSitesSettles(l, c) ==
  /\ l \in 1 .. Len(loads)
  /\ loads[l].phase = "hazard"
  /\ afterHazardSites(l, c, FetchEnd(c, loads[l].rb, FALSE))
  /\ UNCHANGED <<mapVars, predictionResult, appliedBy, panel, reqs, estVars, extraVars>>

\* the promise of the mocked fetchAQIData settles
aqiDataSettles(l, c) ==
  /\ l \in 1 .. Len(loads)
  /\ loads[l].phase = "aqi"
  /\ afterAQIData(l, c, FetchEnd(c, loads[l].rb, FALSE), <<>>)
  /\ UNCHANGED <<mapVars, predictionResult, appliedBy, panel, reqs, estVars, extraVars>>

\* the Retry button of the error alert
retryLoadData ==
  /\ error # ""
  /\ loadMapData(IF mapReady THEN <<getBounds(mapView)>> ELSE <<>>)
  /\ UNCHANGED <<mapVars, predictionResult, appliedBy, panel, reqs, estVars, extraVars,
                 searchTimers>>

NextDataMocked ==
  \/ MapCreated
  \/ initialLoad
  \/ retryLoadData
  \/ \E l \in 1 .. MaxLoads, c \in MockHazardSettlements : hazardSitesSettles(l, c)
  \/ \E l \in 1 .. MaxLoads, c \in MockAQISettlements : aqiDataSettles(l, c)

SpecDataMocked == Init /\ [][NextDataMocked]_vars

\* C22: in loadMapData the hazard-site fetch completes before the AQI fetch
\* starts, and its rejection does not prevent the AQI fetch; when both
\* reject, the error is "Failed to load hazard site data. Also failed to
\* load AQI data. Displaying mock data instead.", dataSource is "mock" and
\* loading is false at the end; loading is false at the end of every path.
C22_HazardThenAQI ==
  /\ [](\A l \in Loads :
          /\ loads[l].phase = "hazard" =>
               loads[l].hazardEnd = <<>> /\ loads[l].aqiEnd = <<>>
          /\ loads[l].phase = "aqi" =>
               loads[l].hazardEnd # <<>> /\ loads[l].aqiEnd = <<>>
          /\ loads[l].phase = "done" =>
               loads[l].hazardEnd # <<>> /\ loads[l].aqiEnd # <<>>)
  /\ [][\A l \in Loads :
          /\ (loads[l].phase = "hazard" /\ loads'[l].phase # "hazard") =>
               loads'[l].phase = "aqi"
          /\ (loads[l].phase = "aqi" /\ loads'[l].phase = "done") =>
               /\ loading' = FALSE
               /\ (loads[l].hazardEnd[1].c.rejected /\ loads'[l].aqiEnd[1].c.rejected) =>
                    /\ error' = "Failed to load hazard site data. Also failed to load AQI data. Displaying mock data instead."
                    /\ dataSource' = "mock"]_vars

\* both fetches of the initial load were rejected
C22_Witness ==
  /\ Len(loads) = 1
  /\ loads[1].phase = "done"
  /\ loads[1].hazardEnd[1].c.rejected
  /\ loads[1].aqiEnd[1].c.rejected
  /\ ~loading
  /\ dataSource = "mock"
  /\ error = displayedError(ErrBothData)
  /\ hazardSites = componentMockHazardSites

\* ------------------------------------------------------ AQI markers
MaxAQI == 350

\* the colour class createAQIIcon puts in the marker
createAQIIcon(aqi) ==
  IF aqi > 300 THEN "bg-purple-500"
  ELSE IF aqi > 200 THEN "bg-red-500"
  ELSE IF aqi > 150 THEN "bg-orange-500"
  ELSE IF aqi > 100 THEN "bg-yellow-500"
  ELSE "bg-green-500"

\* the colour class the map legend shows for an AQI value, "" where the
\* legend has no entry
legendColor(aqi) ==
  IF aqi >= 0 /\ aqi <= 50 THEN "bg-green-500"
  ELSE IF aqi >= 51 /\ aqi <= 100 THEN "bg-yellow-500"
  ELSE IF aqi >= 101 /\ aqi <= 150 THEN "bg-orange-500"
  ELSE ""

\* a Marker of an AQI station is rendered with icon createAQIIcon(station.aqi)
renderAQIMarker(aqi) ==
  /\ aqiIcon' = [aqi |-> aqi, color |-> createAQIIcon(aqi)]
  /\ UNCHANGED <<mapVars, predictionResult, appliedBy, panel, reqs, estVars, loaderVars,
                 visibleLayers, locationFinder, edgeClient>>

NextIcon == \E aqi \in 0 .. MaxAQI : renderAQIMarker(aqi)

SpecIcon == Init /\ [][NextIcon]_vars

\* C26: the colour of an AQI marker follows the legend for every integer
\* AQI value: 0-50 green, 51-100 yellow, 101-150 orange.
C26_ColourFollowsLegend ==
  (aqiIcon.color # "" /\ legendColor(aqiIcon.aqi) # "") =>
    aqiIcon.color = legendColor(aqiIcon.aqi)

\* ------------------------------------------------------- LayerControl
\* the layers LayerControl renders a Switch for
LayerSwitches == {"hazardSites", "aqiStations"}

\* LayerControl is in the desktop sidebar, and in the mobile menu while it
\* is open on the "controls" view
layerControlRendered == ~isMobile \/ (mobileMenuOpen /\ mobilePanelView = "controls")

\* setVisibleLayers(prev => ({...prev, [key]: !prev[key]})) for a known layer
toggleLayer(layerName) ==
  /\ visibleLayers' = IF layerName \in DOMAIN visibleLayers
                        THEN [visibleLayers EXCEPT ![layerName] = ~@]
                        ELSE visibleLayers
  /\ UNCHANGED <<mapVars, predictionResult, appliedBy, panel, reqs, estVars, loaderVars,
                 aqiIcon, locationFinder, edgeClient>>

\* a Switch of LayerControl: onCheckedChange={() => onToggle(layerName)}
onCheckedChange(layerName) ==
  /\ layerControlRendered
  /\ toggleLayer(layerName)

\* the Clear Prediction button, rendered while layers.prediction
onClearPrediction ==
  /\ layerControlRendered
  /\ visibleLayers["prediction"]
  /\ predictionResult' = <<>>
  /\ UNCHANGED <<mapVars, appliedBy, panel, reqs, estVars, dataVars>>

\* every user action LayerControl offers
layerControlAction ==
  \/ \E layerName \in LayerSwitches : onCheckedChange(layerName)
  \/ onClearPrediction

NextLayers == NextMocked \/ layerControlAction

SpecLayers == Init /\ [][NextLayers]_vars

\* C21: LayerControl lets the user toggle each of the three layers: for
\* hazard sites, AQI stations and prediction there is a user action in
\* LayerControl that flips the layer's flag in visibleLayers.
C21_EveryLayerToggles ==
  layerControlRendered =>
    \A k \in LayerNames :
      ENABLED (layerControlAction /\ visibleLayers'[k] # visibleLayers[k])

\* what holds instead: the switches flip the other two flags and nothing
\* ever clears the prediction flag
C21_PredictionAlwaysVisible ==
  /\ visibleLayers["prediction"]
  /\ layerControlRendered =>
       \A k \in LayerSwitches :
         ENABLED (layerControlAction /\ visibleLayers'[k] # visibleLayers[k])

\* ------------------------------------------- editing stack parameters
\* a text typed into a stack-parameter field in place of its default
StackTexts == {"abc"}

\* onChange={(e) => setStackHeight(e.target.value)} and its three siblings
setStackText(i, t) ==
  /\ panel.mounted
  /\ panel.stack[i] # t
  /\ panel' = [panel EXCEPT !.stack[i] = t]
  /\ UNCHANGED <<mapVars, predictionResult, appliedBy, reqs, estVars, dataVars>>

NextStack ==
  \/ MapCreated
  \/ \E options \in ChemicalOptionResults : loadChemicals(options)
  \/ \E i \in 1 .. Len(Catalog) : selectChemical(i)
  \/ handleSimulate
  \/ \E r \in 1 .. MaxRequests, c \in MockWeatherSettlements : weatherSettles(r, c)
  \/ \E r \in 1 .. MaxRequests, c \in MockPredictionSettlements :
       predictionSettles(r, c)
  \/ \E i \in 1 .. Len(DefaultStack), t \in StackTexts : setStackText(i, t)

SpecStack == InitDesktop /\ [][NextStack]_vars

\* a field whose text is non-empty and does not parse as a number
nonNumericField(stack) ==
  \E i \in 1 .. Len(stack) : stack[i] # "" /\ parseFloat(stack[i]).kind = "NaN"

C25_StackErrorNeverSet == panel.error # ErrStack

\* ------------------------------------------------------ LocationFinder
\* locationFinder: the state of LocationFinder; errorMessage "" is null
\*   pending: getCurrentPosition calls whose callback has not run
\*   timers: pending timers of the success callback
\*   geolocation: whether navigator.geolocation exists
\*   reported: the position the last success callback received
ErrNotSupported == "Geolocation is not supported by your browser"

\* the message the error callback sets for error.code
geolocationMessage(code) ==
  CASE code = 1 -> "Location permission denied. Please enable location access in your browser settings."
    [] code = 2 -> "Location information is unavailable."
    [] code = 3 -> "The request to get user location timed out."
    [] OTHER -> "An unknown error occurred while requesting location."

GeolocationCodes == {0, 1, 2, 3}

\* positions the browser reports
Positions == {Location(5150500, -9000), Location(40 * DegUnit, -74 * DegUnit)}

\* map.setView([39.8283, -98.5795], 4)
centralUSView == [center |-> Location(3982830, -9857950), zoom |-> 4]

InitFinder ==
  /\ InitApp /\ InitData
  /\ estIn = EstIdle /\ estOut = <<>> /\ estLocals = <<>>
  /\ visibleLayers = [k \in LayerNames |-> TRUE]
  /\ aqiIcon = IconIdle
  /\ edgeClient = EdgeInitial
  /\ locationFinder \in {[FinderInitial EXCEPT !.geolocation = b] : b \in BOOLEAN}

finderUnchanged ==
  UNCHANGED <<isMobile, mapReady, mobileMenuOpen, mobilePanelView, predictionResult,
              appliedBy, panel, reqs, estVars, loaderVars, visibleLayers, aqiIcon,
              edgeClient>>

\* the "Find my location" button, rendered while locationStatus is "idle"
requestLocation ==
  /\ locationFinder.locationStatus = "idle"
  /\ locationFinder' =
       IF ~locationFinder.geolocation
         THEN [locationFinder EXCEPT !.locationStatus = "error",
                                     !.errorMessage = ErrNotSupported]
         ELSE [locationFinder EXCEPT !.locationStatus = "requesting",
                                     !.pending = @ + 1]
  /\ UNCHANGED mapView
  /\ finderUnchanged

\* the success callback keeps the zoom of the map
positionSuccess_zoomKept(position) ==
  /\ locationFinder.pending > 0
  /\ mapView' = [center |-> position, zoom |-> mapView.zoom]
  /\ locationFinder' = [locationFinder EXCEPT !.locationStatus = "success",
                                              !.pending = @ - 1,
                                              !.timers = @ + 1,
                                              !.reported = <<position>>]
  /\ finderUnchanged

\* the success callback of getCurrentPosition
positionSuccess(position) ==
  /\ locationFinder.pending > 0
  /\ mapView' = [center |-> position, zoom |-> 10]
  /\ locationFinder' = [locationFinder EXCEPT !.locationStatus = "success",
                                              !.pending = @ - 1,
                                              !.timers = @ + 1,
                                              !.reported = <<position>>]
  /\ finderUnchanged

\* the error callback of getCurrentPosition
positionError(code) ==
  /\ locationFinder.pending > 0
  /\ mapView' = centralUSView
  /\ locationFinder' = [locationFinder EXCEPT !.locationStatus = "error",
                                              !.errorMessage = geolocationMessage(code),
                                              !.pending = @ - 1]
  /\ finderUnchanged

\* setTimeout(() => setLocationStatus("idle"), 2000)
successTimer ==
  /\ locationFinder.timers > 0
  /\ locationFinder' = [locationFinder EXCEPT !.locationStatus = "idle", !.timers = @ - 1]
  /\ UNCHANGED mapView
  /\ finderUnchanged

\* the Dismiss button of the error box
dismissError ==
  /\ locationFinder.locationStatus = "error"
  /\ locationFinder.errorMessage # ""
  /\ locationFinder' = [locationFinder EXCEPT !.locationStatus = "idle"]
  /\ UNCHANGED mapView
  /\ finderUnchanged

NextFinder ==
  \/ requestLocation
  \/ \E position \in Positions : positionSuccess(position)
  \/ \E code \in GeolocationCodes : positionError(code)
  \/ successTimer
  \/ dismissError

SpecFinder == InitFinder /\ [][NextFinder]_vars

\* one step of LocationFinder: its status changes only along `allowed`, a
\* request starts only in "idle", success moves the map to the reported
\* position at zoom 10, a geolocation error sets a message and moves the
\* map to the central US view
finderStep(allowed) ==
  LET f == locationFinder
      g == locationFinder'
  IN  /\ f.locationStatus # g.locationStatus =>
           <<f.locationStatus, g.locationStatus>> \in allowed
      /\ g.pending > f.pending => f.locationStatus = "idle"
      /\ g.locationStatus = "success" /\ f.locationStatus = "requesting" =>
           g.reported # <<>> /\ mapView' = [center |-> g.reported[1], zoom |-> 10]
      /\ g.locationStatus = "error" /\ f.locationStatus = "requesting" =>
           g.errorMessage # "" /\ mapView' = centralUSView

finderState ==
  /\ locationFinder.pending <= 1
  /\ locationFinder.locationStatus = "requesting" <=> locationFinder.pending = 1
  /\ locationFinder.locationStatus = "error" => locationFinder.errorMessage # ""

ClaimedFinderMoves ==
  {<<"idle", "requesting">>, <<"requesting", "success">>, <<"success", "idle">>,
   <<"requesting", "error">>, <<"error", "idle">>}

\* C30 as stated: the status of LocationFinder moves only idle, requesting,
\* success, idle (after 2 s) or idle, requesting, error, idle (Dismiss); a
\* request starts only in idle and at most one is outstanding; success puts
\* the map on the reported position at zoom 10, any geolocation error code
\* gives status error with a message and the view [39.8283, -98.5795] zoom 4.
C30_FinderMovesAsStated ==
  [][finderStep(ClaimedFinderMoves)]_vars

\* C30: as above, and where navigator.geolocation is missing a click moves
\* the status from idle straight to error with the message "Geolocation is
\* not supported by your browser", starting no request and leaving the map
\* view alone.
C30_FinderMoves ==
  /\ []finderState
  /\ [][finderStep(ClaimedFinderMoves \cup {<<"idle", "error">>})]_vars
  /\ [][(locationFinder.locationStatus = "idle"
          /\ locationFinder'.locationStatus = "error") =>
         (/\ ~locationFinder.geolocation
          /\ locationFinder'.errorMessage = ErrNotSupported
          /\ locationFinder'.pending = 0
          /\ mapView' = mapView)]_vars

\* a click without navigator.geolocation has put the finder in "error"
C30_Witness ==
  /\ ~locationFinder.geolocation
  /\ locationFinder.locationStatus = "error"
  /\ locationFinder.errorMessage = ErrNotSupported
  /\ locationFinder.pending = 0
  /\ mapView.zoom = initialZoom

\* ------------------------------- api-client with availability probing
\* edgeClient: the module state of the api-client that probes the service
\*   edgeFunctionsAvailable: the stored flag, <<>> while null
\*   configured: EDGE_FUNCTION_URL and SUPABASE_ANON_KEY are both set
\*   falseResult: some checkEdgeFunctionsAvailability call has returned false
\*   calls: the calls made so far, each with
\*     fn: the function called; phase: "probe", "remote" or "done"
\*     known: the flag when the call was made; afterFalse: falseResult then
\*     probed: the call sent a probe; remote: it went on to the remote service
MaxCalls == 3

ClientFunctions == {"fetchHazardSites", "fetchAQIData", "getWeatherData", "runPrediction"}

\* what the probe's fetch can give: 0 is the network error caught as null,
\* otherwise the HTTP status of the response
ProbeOutcomes == {0, 200, 400, 404}

\* edgeFunctionsAvailable = response !== null && response.status !== 404
probeAvailable(o) == o # 0 /\ o # 404

\* a call goes on with the value checkEdgeFunctionsAvailability returned:
\* to the remote service when available, else it returns its local result
afterCheck(call, available) ==
  IF available THEN [call EXCEPT !.phase = "remote", !.remote = TRUE]
  ELSE [call EXCEPT !.phase = "done"]

InitEdge ==
  /\ InitApp /\ InitData
  /\ estIn = EstIdle /\ estOut = <<>> /\ estLocals = <<>>
  /\ visibleLayers = [k \in LayerNames |-> TRUE]
  /\ aqiIcon = IconIdle
  /\ locationFinder = FinderInitial
  /\ edgeClient \in {[EdgeInitial EXCEPT !.configured = b] : b \in BOOLEAN}

edgeUnchanged ==
  UNCHANGED <<mapVars, predictionResult, appliedBy, panel, reqs, estVars, loaderVars,
              visibleLayers, aqiIcon, locationFinder>>

\* one of the four functions is called, up to the first await that waits
\* for the network
callClient(fn) ==
  /\ Len(edgeClient.calls) < MaxCalls
  /\ LET flag == edgeClient.edgeFunctionsAvailable
         call == [fn |-> fn, phase |-> "probe", known |-> flag,
                  afterFalse |-> edgeClient.falseResult, probed |-> FALSE, remote |-> FALSE]
     IN  edgeClient' =
           IF flag # <<>>
             THEN [edgeClient EXCEPT !.calls = Append(@, afterCheck(call, flag[1])),
                                     !.falseResult = @ \/ ~flag[1]]
           ELSE IF ~edgeClient.configured
             THEN [edgeClient EXCEPT !.edgeFunctionsAvailable = <<FALSE>>,
                                     !.falseResult = TRUE,
                                     !.calls = Append(@, afterCheck(call, FALSE))]
           ELSE [edgeClient EXCEPT !.calls = Append(@, [call EXCEPT !.probed = TRUE])]
  /\ edgeUnchanged

\* the probe of call i settles: the flag is stored and the call goes on
availabilityResponse(i, o) ==
  /\ i \in 1 .. Len(edgeClient.calls)
  /\ edgeClient.calls[i].phase = "probe"
  /\ edgeClient' = [edgeClient EXCEPT
                      !.edgeFunctionsAvailable = <<probeAvailable(o)>>,
                      !.falseResult = @ \/ ~probeAvailable(o),
                      !.calls[i] = afterCheck(@, probeAvailable(o))]
  /\ edgeUnchanged

\* retryWithBackoff around the remote request of call i comes to its end
remoteSettles(i) ==
  /\ i \in 1 .. Len(edgeClient.calls)
  /\ edgeClient.calls[i].phase = "remote"
  /\ edgeClient' = [edgeClient EXCEPT !.calls[i].phase = "done"]
  /\ edgeUnchanged

NextEdge ==
  \/ \E fn \in ClientFunctions : callClient(fn)
  \/ \E i \in 1 .. MaxCalls, o \in ProbeOutcomes : availabilityResponse(i, o)
  \/ \E i \in 1 .. MaxCalls : remoteSettles(i)

SpecEdge == InitEdge /\ [][NextEdge]_vars

EdgeCalls == 1 .. Len(edgeClient.calls)

\* C24: once checkEdgeFunctionsAvailability has completed, every later call
\* of the four functions reuses the stored value and sends no further probe;
\* after a false result every later runPrediction returns the client-side
\* prediction without any remote attempt, for the rest of the process.
C24_SingleFlagDecides ==
  \A i \in EdgeCalls :
    LET call == edgeClient.calls[i] IN
      /\ call.known # <<>> => ~call.probed /\ (call.remote <=> call.known[1])
      /\ (call.fn = "runPrediction" /\ call.afterFalse) => ~call.remote

\* what holds: a call made while the flag is set sends no probe and goes by
\* the value stored at that moment
C24_StoredValueReused ==
  \A i \in EdgeCalls :
    LET call == edgeClient.calls[i] IN
      call.known # <<>> => ~call.probed /\ (call.remote <=> call.known[1])

====
